---- MODULE Spec2Model ----
(***************************************************************************)
(* A model of git-clone (src/git_clone): the object store and reference    *)
(* store of data.py and the tree / commit layer of base.py, over an        *)
(* explicit model of the directory the program runs in.                    *)
(*                                                                         *)
(* Representation.                                                         *)
(*  - A byte string or Python str is a sequence of tokens.  A token is a   *)
(*    TLA+ string standing for a run of bytes that holds no NUL, space,    *)
(*    newline, colon or slash; those five are tokens of their own.         *)
(*  - hashlib.sha1(..).hexdigest() is an injective function from byte      *)
(*    strings to tokens (no collisions).                                   *)
(*  - The file system is a function from paths (sequences of names,        *)
(*    relative to the working directory) to nodes; the metadata root       *)
(*    .git-clone is a directory of that same tree, as it is on disk.       *)
(*  - Python values that the code passes around untyped (str, None,        *)
(*    RefValue) are records with a type field, so that attribute access    *)
(*    and truthiness behave as in Python.                                  *)
(*  - An operation is an operator from the file system to a result         *)
(*    [fs, ret, exc]: the file system it leaves, the value it returns and  *)
(*    the exception it raises ("" when it returns normally).               *)
(***************************************************************************)
EXTENDS Integers, Sequences, FiniteSets, TLC

VARIABLES
    fs,     \* the directory tree under the working directory
    last,   \* the most recent call: [op, arg, ret, exc]
    procs   \* the processes running hash_object side by side, each with
            \* its position in data.py:20-26 and its locals

vars == <<fs, last, procs>>

----------------------------------------------------------------------------
(* Tokens and string helpers                                               *)

NUL == "<NUL>"
NL == "\n"
SP == " "
COLON == ":"
SLASH == "/"

\* data.py:5
GIT_DIR == ".git-clone"

IsSpace(t) == t \in {SP, NL}

RECURSIVE LStrip(_)
LStrip(s) == IF s # <<>> /\ IsSpace(Head(s)) THEN LStrip(Tail(s)) ELSE s

RECURSIVE RStrip(_)
RStrip(s) ==
    IF s # <<>> /\ IsSpace(s[Len(s)]) THEN RStrip(SubSeq(s, 1, Len(s) - 1)) ELSE s

\* str.strip()
Strip(s) == RStrip(LStrip(s))

\* the least index of token t in s, 0 when there is none
IndexOf(s, t) ==
    IF \E i \in 1..Len(s) : s[i] = t
    THEN CHOOSE i \in 1..Len(s) : s[i] = t /\ \A j \in 1..(i - 1) : s[j] # t
    ELSE 0

\* the greatest index of token t in s, 0 when there is none
LastIndexOf(s, t) ==
    IF \E i \in 1..Len(s) : s[i] = t
    THEN CHOOSE i \in 1..Len(s) : s[i] = t /\ \A j \in (i + 1)..Len(s) : s[j] # t
    ELSE 0

\* s.split(t): the pieces of s between occurrences of t
RECURSIVE Split(_, _)
Split(s, t) ==
    LET i == IndexOf(s, t)
    IN IF i = 0 THEN <<s>>
       ELSE <<SubSeq(s, 1, i - 1)>> \o Split(SubSeq(s, i + 1, Len(s)), t)

\* s.split(t, n): at most n splits, the rest left whole
RECURSIVE SplitN(_, _, _)
SplitN(s, t, n) ==
    LET i == IndexOf(s, t)
    IN IF n = 0 \/ i = 0 THEN <<s>>
       ELSE <<SubSeq(s, 1, i - 1)>> \o SplitN(SubSeq(s, i + 1, Len(s)), t, n - 1)

\* t.join(parts)
RECURSIVE Join(_, _)
Join(parts, t) ==
    IF parts = <<>> THEN <<>>
    ELSE IF Len(parts) = 1 THEN parts[1]
    ELSE parts[1] \o <<t>> \o Join(Tail(parts), t)

\* str.splitlines(): a trailing newline ends the last line, it opens no new one
SplitLines(s) ==
    IF s = <<>> THEN <<>>
    ELSE IF s[Len(s)] = NL THEN Split(SubSeq(s, 1, Len(s) - 1), NL)
    ELSE Split(s, NL)

IsPrefix(p, q) == Len(p) <= Len(q) /\ SubSeq(q, 1, Len(p)) = p

----------------------------------------------------------------------------
(* Python values                                                           *)

PyNone == [type |-> "NoneType"]
PyStr(s) == [type |-> "str", s |-> s]

\* data.py:11
RefValue(symbolic, value) == [type |-> "RefValue", symbolic |-> symbolic, value |-> value]

\* bool(v): None and "" are falsy; a namedtuple of two fields is a non-empty
\* tuple and so always truthy
Truthy(v) ==
    CASE v.type = "NoneType" -> FALSE
      [] v.type = "str" -> v.s # <<>>
      [] OTHER -> TRUE

\* repr(v) of a str or None, as it appears inside a namedtuple's repr
Repr(v) ==
    IF v.type = "str" THEN <<"'">> \o v.s \o <<"'">> ELSE <<"None">>

\* f'{v}': str(v)
Format(v) ==
    CASE v.type = "str" -> v.s
      [] v.type = "NoneType" -> <<"None">>
      [] OTHER ->
            <<"RefValue(symbolic=", IF v.symbolic THEN "True" ELSE "False", ",", SP, "value=">>
            \o Repr(v.value) \o <<")">>

\* the result of an operation
Result(f, ret, exc) == [fs |-> f, ret |-> ret, exc |-> exc]

\* statement sequencing: an exception raised by r ends the function with
\* the file system as r left it, otherwise K goes on from r
Then(r, K(_)) == IF r.exc # "" THEN r ELSE K(r)

----------------------------------------------------------------------------
(* The file system                                                         *)

FileNode(data) == [dir |-> FALSE, data |-> data]
DirNode == [dir |-> TRUE, data |-> <<>>]

\* a symbolic link whose target does not exist
LinkNode == [dir |-> FALSE, data |-> <<>>, link |-> TRUE]

Exists(f, p) == p \in DOMAIN f
IsLink(f, p) == p \in DOMAIN f /\ f[p] = LinkNode
\* os.path.isfile, and DirEntry.is_file(follow_symlinks=False)
IsFile(f, p) == p \in DOMAIN f /\ ~f[p].dir /\ f[p] # LinkNode
IsDir(f, p) == p \in DOMAIN f /\ f[p].dir
Parent(p) == SubSeq(p, 1, Len(p) - 1)
Prefixes(p) == {SubSeq(p, 1, i) : i \in 0..Len(p)}
Children(f, p) == {q \in DOMAIN f : Len(q) = Len(p) + 1 /\ IsPrefix(p, q)}

\* the path a '/'-separated name denotes: "." and empty components drop out
PathOf(s) == SelectSeq(Split(s, SLASH), LAMBDA c : c # <<>> /\ c # <<".">>)

\* the tokens of one path component run together into one name
RECURSIVE Concat(_)
Concat(c) == IF c = <<>> THEN "" ELSE Head(c) \o Concat(Tail(c))

Flat(p) == [i \in 1..Len(p) |-> Concat(p[i])]

\* f'{GIT_DIR}/{name}'
GitPath(name) == <<GIT_DIR>> \o Flat(PathOf(name))

\* os.makedirs(p, exist_ok=True): every missing prefix becomes a directory;
\* a prefix that is a regular file makes it fail
MakeDirs(f, p) ==
    IF \E q \in Prefixes(p) : IsFile(f, q)
    THEN Result(f, PyNone, IF IsFile(f, p) THEN "FileExistsError" ELSE "NotADirectoryError")
    ELSE Result([q \in DOMAIN f \cup Prefixes(p) |-> IF q \in DOMAIN f THEN f[q] ELSE DirNode],
                PyNone, "")

\* open(p, "w" / "wb"): creates or truncates the file
OpenW(f, p) ==
    IF IsDir(f, p) THEN Result(f, PyNone, "IsADirectoryError")
    ELSE IF \E q \in Prefixes(Parent(p)) : IsFile(f, q) THEN Result(f, PyNone, "NotADirectoryError")
    ELSE IF ~IsDir(f, Parent(p)) THEN Result(f, PyNone, "FileNotFoundError")
    ELSE Result([q \in DOMAIN f \cup {p} |-> IF q = p THEN FileNode(<<>>) ELSE f[q]], PyNone, "")

\* f.write(data) on a file opened by OpenW
WriteData(f, p, data) == [f EXCEPT ![p] = FileNode(data)]

\* open(p, "r" / "rb").read()
ReadFile(f, p) ==
    IF IsDir(f, p) THEN Result(f, PyNone, "IsADirectoryError")
    ELSE IF \E q \in Prefixes(Parent(p)) : IsFile(f, q) THEN Result(f, PyNone, "NotADirectoryError")
    ELSE IF ~Exists(f, p) THEN Result(f, PyNone, "FileNotFoundError")
    ELSE Result(f, f[p].data, "")

----------------------------------------------------------------------------
(* data.py: the object store                                               *)

\* hashlib.sha1(obj).hexdigest(): injective, its value one token.  The digest
\* is written as the bracketed list of the tokens hashed, which no other
\* byte string yields.
Sha1(obj) == "{" \o Concat(Join([i \in 1..Len(obj) |-> <<obj[i]>>], "|")) \o "}"

\* f'{GIT_DIR}/objects/{oid}'
ObjectPath(oid) == <<GIT_DIR, "objects">> \o Flat(PathOf(Format(oid)))

\* data.py:14-16
init(f) ==
    LET a == MakeDirs(f, <<GIT_DIR>>)
    IN IF a.exc # "" THEN a ELSE MakeDirs(a.fs, <<GIT_DIR, "objects">>)

\* hash_object with the file opened "ab": a second write appends
hash_object_append(f, data, type_) ==
    LET obj == type_ \o <<NUL>> \o data
        oid == PyStr(<<Sha1(obj)>>)
        old == IF IsFile(f, ObjectPath(oid)) THEN f[ObjectPath(oid)].data ELSE <<>>
        o == OpenW(f, ObjectPath(oid))
    IN IF o.exc # "" THEN o
       ELSE Result(WriteData(o.fs, ObjectPath(oid), old \o obj), oid, "")

\* data.py:20-26; ret is the oid
hash_object(f, data, type_) ==
    LET obj == type_ \o <<NUL>> \o data
        oid == PyStr(<<Sha1(obj)>>)
        o == OpenW(f, ObjectPath(oid))
    IN IF o.exc # "" THEN o
       ELSE Result(WriteData(o.fs, ObjectPath(oid), obj), oid, "")

\* bytes.rpartition(sep): around the last sep
PartitionLast(obj, sep) ==
    LET i == LastIndexOf(obj, sep)
    IN IF i = 0 THEN <<<<>>, <<>>, obj>>
       ELSE <<SubSeq(obj, 1, i - 1), <<sep>>, SubSeq(obj, i + 1, Len(obj))>>

\* bytes.partition(sep): (head, sep, tail) around the first sep
Partition(obj, sep) ==
    LET i == IndexOf(obj, sep)
    IN IF i = 0 THEN <<obj, <<>>, <<>>>>
       ELSE <<SubSeq(obj, 1, i - 1), <<sep>>, SubSeq(obj, i + 1, Len(obj))>>

\* get_object with the check of lines 36-37 left out
get_object_unchecked(f, oid, expected) ==
    LET r == ReadFile(f, ObjectPath(oid))
    IN IF r.exc # "" THEN r ELSE Result(f, PyStr(Partition(r.ret, NUL)[3]), "")

\* data.py:29-39; oid and expected are Python values, ret is the content
get_object(f, oid, expected) ==
    LET r == ReadFile(f, ObjectPath(oid))
        parts == Partition(r.ret, NUL)
        type_ == parts[1]
        content == parts[3]
    IN IF r.exc # "" THEN r
       ELSE IF expected.type # "NoneType" /\ PyStr(type_) # expected
            THEN Result(f, PyNone, "AssertionError")
       ELSE Result(f, PyStr(content), "")

----------------------------------------------------------------------------
(* data.py: the reference store                                            *)

\* sys.getrecursionlimit(): the depth at which Python raises RecursionError
RecursionLimit == 6

\* value.startswith("ref:")
StartsWithRef(s) == Len(s) >= 2 /\ s[1] = "ref" /\ s[2] = COLON

\* value.split(":", 1)[1].strip()
AfterColon(s) == Strip(SplitN(s, COLON, 1)[2])

\* data.py:78-94 at recursion depth d; ret is <<ref, RefValue>>
RECURSIVE GetRefAt(_, _, _, _)
GetRefAt(f, ref, deref, d) ==
    LET ref_path == GitPath(ref)
        value == IF IsFile(f, ref_path) THEN PyStr(Strip(f[ref_path].data)) ELSE PyNone
        symbolic == Truthy(value) /\ StartsWithRef(value.s)
    IN IF ~symbolic THEN Result(f, <<ref, RefValue(FALSE, value)>>, "")
       ELSE IF ~deref THEN Result(f, <<ref, RefValue(TRUE, PyStr(AfterColon(value.s)))>>, "")
       ELSE IF d >= RecursionLimit THEN Result(f, PyNone, "RecursionError")
       ELSE GetRefAt(f, AfterColon(value.s), TRUE, d + 1)

\* _get_ref_internal with line 91 slipped: a symbolic value is never followed
_get_ref_internal_nofollow(f, ref, deref) == GetRefAt(f, ref, FALSE, 1)

\* data.py:78-94
_get_ref_internal(f, ref, deref) == GetRefAt(f, ref, deref, 1)

\* data.py:70-71
get_ref(f, ref, deref) ==
    LET r == _get_ref_internal(f, ref, deref)
    IN IF r.exc # "" THEN r ELSE Result(f, r.ret[2], "")

\* data.py:57-66: the write, once name resolution r has found the cell
WriteRef(f, r, value) ==
    LET target == r.ret[1]
        ref_path == GitPath(target)
        text == IF value.symbolic THEN <<"ref", COLON, SP>> \o Format(value.value)
                ELSE value.value.s
        m == MakeDirs(f, Parent(ref_path))
        o == OpenW(m.fs, ref_path)
    IN IF r.exc # "" THEN r
       ELSE IF value.type # "RefValue" THEN Result(f, PyNone, "AttributeError")
       ELSE IF ~Truthy(value.value) THEN Result(f, PyNone, "AssertionError")
       ELSE IF m.exc # "" THEN m
       ELSE IF o.exc # "" THEN o
       ELSE IF ~value.symbolic /\ value.value.type # "str" THEN Result(o.fs, PyNone, "TypeError")
       ELSE Result(WriteData(o.fs, ref_path, text), PyNone, "")

\* update_ref with line 55 slipped: the name is never followed
update_ref_literal(f, ref, value, deref) ==
    WriteRef(f, _get_ref_internal(f, ref, FALSE), value)

\* data.py:54-66; value is whatever Python value the caller passes
update_ref(f, ref, value, deref) ==
    WriteRef(f, _get_ref_internal(f, ref, deref), value)

----------------------------------------------------------------------------
(* base.py: trees                                                          *)

\* base.py:183-184
is_ignored(path) == \E i \in 1..Len(Split(path, SLASH)) : Split(path, SLASH)[i] = <<GIT_DIR>>

\* some enumeration of a set
RECURSIVE SetToSeq(_)
SetToSeq(S) ==
    IF S = {} THEN <<>>
    ELSE LET x == CHOOSE y \in S : TRUE IN <<x>> \o SetToSeq(S \ {x})

Range(s) == {s[i] : i \in 1..Len(s)}

\* os.scandir(directory): the names of its entries, in the order the file
\* system yields them: the names listed in ord first, in ord's order
ScanDirIn(f, p, ord) ==
    LET names == {q[Len(q)] : q \in Children(f, p)}
    IN SelectSeq(ord, LAMBDA n : n \in names) \o SetToSeq(names \ Range(ord))

ScanDir(f, p) == ScanDirIn(f, p, <<>>)

\* The characters of a file name: one token, but for the name that holds a
\* line break, which is the token NL between two others.
Chars(name) == IF name = "a\nb" THEN <<"a", NL, "b">> ELSE <<name>>

\* The byte order of the names a working directory holds in this model.
\* A name that is not listed is a digest: hex digits sort after '.' and
\* before the letters g..z that the listed names begin with.
NameOrder == <<GIT_DIR, "<digest>", "a\nb", "link", "main", "notes", "objects", "src">>
NameRank(name) ==
    IF \E i \in 1..Len(NameOrder) : NameOrder[i] = name
    THEN CHOOSE i \in 1..Len(NameOrder) : NameOrder[i] = name
    ELSE 2

\* sorted(entries): entries are (name, oid, type_) and names are distinct
RECURSIVE Sorted(_)
Sorted(S) ==
    IF S = {} THEN <<>>
    ELSE LET m == CHOOSE e \in S : \A o \in S : NameRank(e[1]) <= NameRank(o[1])
         IN <<m>> \o Sorted(S \ {m})

\* sorted(entries) left out: the entries stay in the order of the loop
sorted_not(entries) == entries

\* base.py:36
sorted(entries) == Sorted(Range(entries))

\* base.py:35-37: "".join(f'{type_} {oid} {name}\n' ...)
RECURSIVE TreeText(_)
TreeText(entries) ==
    IF entries = <<>> THEN <<>>
    ELSE LET e == Head(entries)
         IN e[3] \o <<SP>> \o Format(e[2]) \o <<SP>> \o Chars(e[1]) \o <<NL>>
            \o TreeText(Tail(entries))

\* base.py:12-40 when os.scandir yields the entries in ord's order;
\* directory is a str, ret is the oid of the tree.
\* WriteTreeEntries is the loop of lines 15-31 over the entries left.
\* loc is <<oid, type_>>, the locals as the iterations so far left them
\* (<<>> while they are unbound): an entry that is neither a regular file
\* nor a directory assigns neither, and line 31 reads both.
RECURSIVE write_tree_in(_, _, _), WriteTreeEntries(_, _, _, _, _, _)
WriteTreeEntries(f, directory, names, entries, ord, loc) ==
    IF names = <<>> THEN Result(f, entries, "")
    ELSE LET name == Head(names)
             full == directory \o <<SLASH>> \o Chars(name)
             p == Append(Flat(PathOf(directory)), name)
             r == IF IsFile(f, p) THEN hash_object(f, f[p].data, <<"blob">>)
                  ELSE write_tree_in(f, full, ord)
             type_ == IF IsFile(f, p) THEN <<"blob">> ELSE <<"tree">>
         IN IF is_ignored(full)
            THEN WriteTreeEntries(f, directory, Tail(names), entries, ord, loc)
            ELSE IF ~IsFile(f, p) /\ ~IsDir(f, p)
                 THEN IF loc = <<>> THEN Result(f, PyNone, "UnboundLocalError")
                      ELSE WriteTreeEntries(f, directory, Tail(names),
                                            Append(entries, <<name, loc[1], loc[2]>>), ord, loc)
            ELSE IF r.exc # "" THEN r
            ELSE WriteTreeEntries(r.fs, directory, Tail(names),
                                  Append(entries, <<name, r.ret, type_>>), ord,
                                  <<r.ret, type_>>)

write_tree_in(f, directory, ord) ==
    LET es == WriteTreeEntries(f, directory, ScanDirIn(f, Flat(PathOf(directory)), ord), <<>>, ord, <<>>)
    IN IF es.exc # "" THEN es
       ELSE hash_object(es.fs, TreeText(sorted(es.ret)), <<"tree">>)

\* base.py:12-40
write_tree(f, directory) == write_tree_in(f, directory, <<>>)

\* result[path] = oid on a dict kept as a sequence of <<path, oid>>
DictPut(d, path, oid) ==
    IF \E i \in 1..Len(d) : d[i][1] = path
    THEN [i \in 1..Len(d) |-> IF d[i][1] = path THEN <<path, oid>> ELSE d[i]]
    ELSE Append(d, <<path, oid>>)

\* result.update(other)
RECURSIVE DictUpdate(_, _)
DictUpdate(d, other) ==
    IF other = <<>> THEN d
    ELSE DictUpdate(DictPut(d, Head(other)[1], Head(other)[2]), Tail(other))

\* base.py:55-69 at recursion depth d; oid is a Python value, base_path a
\* str, ret the dict path -> oid.  GetTreeLines is the loop of lines 58-67
\* over the lines of the tree that _iter_tree_entries (44-52) has yet to
\* yield.
RECURSIVE GetTreeAt(_, _, _, _), GetTreeLines(_, _, _, _, _), GetTreeLinesAnyName(_, _, _, _, _)

\* GetTreeLines with the assertions of lines 59-60 left out
GetTreeLinesAnyName(f, lines, base_path, result, d) ==
    IF lines = <<>> THEN Result(f, result, "")
    ELSE LET parts == SplitN(Head(lines), SP, 2)
             type_ == parts[1]
             oid == PyStr(parts[2])
             name == parts[3]
             path == base_path \o name
             sub == GetTreeAt(f, oid, path \o <<SLASH>>, d + 1)
         IN IF Len(parts) < 3 THEN Result(f, PyNone, "ValueError")
            ELSE IF type_ = <<"blob">>
                 THEN GetTreeLines(f, Tail(lines), base_path, DictPut(result, path, oid), d)
            ELSE IF type_ = <<"tree">>
                 THEN IF sub.exc # "" THEN sub
                      ELSE GetTreeLines(f, Tail(lines), base_path, DictUpdate(result, sub.ret), d)
            ELSE Result(f, PyNone, "AssertionError")

GetTreeLines(f, lines, base_path, result, d) ==
    IF lines = <<>> THEN Result(f, result, "")
    ELSE LET parts == SplitN(Head(lines), SP, 2)
             type_ == parts[1]
             oid == PyStr(parts[2])
             name == parts[3]
             path == base_path \o name
             sub == GetTreeAt(f, oid, path \o <<SLASH>>, d + 1)
         IN IF Len(parts) < 3 THEN Result(f, PyNone, "ValueError")
            ELSE IF \E i \in 1..Len(name) : name[i] = SLASH THEN Result(f, PyNone, "AssertionError")
            ELSE IF name \in {<<"..">>, <<".">>} THEN Result(f, PyNone, "AssertionError")
            ELSE IF type_ = <<"blob">>
                 THEN GetTreeLines(f, Tail(lines), base_path, DictPut(result, path, oid), d)
            ELSE IF type_ = <<"tree">>
                 THEN IF sub.exc # "" THEN sub
                      ELSE GetTreeLines(f, Tail(lines), base_path, DictUpdate(result, sub.ret), d)
            ELSE Result(f, PyNone, "AssertionError")

GetTreeAt(f, oid, base_path, d) ==
    LET tree == get_object(f, oid, PyStr(<<"tree">>))
    IN IF d > RecursionLimit THEN Result(f, PyNone, "RecursionError")
       ELSE IF ~Truthy(oid) THEN Result(f, <<>>, "")
       ELSE IF tree.exc # "" THEN tree
       ELSE GetTreeLines(f, SplitLines(tree.ret.s), base_path, <<>>, d)

\* base.py:55-69
get_tree(f, oid, base_path) == GetTreeAt(f, oid, base_path, 1)

\* os.path.relpath of a path below the working directory
RelPath(p) == Join([i \in 1..Len(p) |-> <<p[i]>>], SLASH)

\* os.rmdir on every directory of depth n that is not ignored: it removes
\* the empty ones, and the OSError of the others is swallowed (94-100);
\* then the directories above, os.walk being bottom-up
RECURSIVE RemoveDirs(_, _)
RemoveDirs(f, n) ==
    IF n = 0 THEN f
    ELSE LET gone == {p \in DOMAIN f : /\ Len(p) = n /\ f[p].dir
                                       /\ ~is_ignored(RelPath(p))
                                       /\ Children(f, p) = {}}
         IN RemoveDirs([p \in DOMAIN f \ gone |-> f[p]], n - 1)

Depth(f) == CHOOSE n \in 0..Cardinality(DOMAIN f) :
                /\ \A p \in DOMAIN f : Len(p) <= n
                /\ \E p \in DOMAIN f : Len(p) = n

\* base.py:82-100: os.remove on every regular file that is not ignored
\* (86-90), then the directories
_empty_current_directory(f) ==
    LET kept == {p \in DOMAIN f : ~IsFile(f, p) \/ is_ignored(RelPath(p))}
    IN RemoveDirs([p \in kept |-> f[p]], Depth(f))

\* os.path.dirname(path)
DirName(path) ==
    IF LastIndexOf(path, SLASH) = 0 THEN <<>>
    ELSE SubSeq(path, 1, LastIndexOf(path, SLASH) - 1)

\* base.py:74-78, the loop over the items of the dict: open() truncates the
\* file before get_object reads the blob
RECURSIVE ReadTreeItems(_, _)
ReadTreeItems(f, items) ==
    IF items = <<>> THEN Result(f, PyNone, "")
    ELSE LET path == Head(items)[1]
             oid == Head(items)[2]
             p == Flat(PathOf(path))
             m == MakeDirs(f, Flat(PathOf(DirName(path))))
             o == OpenW(m.fs, p)
             g == get_object(o.fs, oid, PyStr(<<"blob">>))
         IN IF m.exc # "" THEN m
            ELSE IF o.exc # "" THEN Result(m.fs, PyNone, o.exc)
            ELSE IF g.exc # "" THEN Result(o.fs, PyNone, g.exc)
            ELSE ReadTreeItems(WriteData(o.fs, p, g.ret.s), Tail(items))

\* base.py:72-78
read_tree(f, tree_oid) ==
    LET e == _empty_current_directory(f)
        t == get_tree(e, tree_oid, <<".", SLASH>>)
    IN IF t.exc # "" THEN Result(e, PyNone, t.exc)
       ELSE ReadTreeItems(e, t.ret)

----------------------------------------------------------------------------
(* base.py: commits                                                        *)

\* base.py:104-116: the payload, from the tree's oid, get_ref's value and the message
CommitText(tree, H, message) ==
    <<"tree", SP>> \o Format(tree) \o <<NL>>
    \o (IF Truthy(H) THEN <<"parent", SP>> \o Format(H) \o <<NL>> ELSE <<>>)
    \o <<NL>> \o message \o <<NL>>

\* base.py:104-123; ret is the oid of the commit
commit(f, message) ==
    Then(write_tree(f, <<".">>), LAMBDA t :
    Then(get_ref(t.fs, <<"HEAD">>, TRUE), LAMBDA H :
    Then(hash_object(t.fs, CommitText(t.ret, H.ret, message), <<"commit">>), LAMBDA h :
    Then(update_ref(h.fs, <<"HEAD">>, h.ret, TRUE), LAMBDA u :
    Result(u.fs, h.ret, "")))))

\* base.py:126
Commit(tree, parent, message) ==
    [type |-> "Commit", tree |-> tree, parent |-> parent, message |-> message]

\* base.py:135-144, the loop over the header lines: acc is <<tree, parent>>
\* so far (tree starts unbound), ret is acc and the lines after the blank one
RECURSIVE CommitHeader(_, _)
CommitHeader(lines, acc) ==
    IF lines = <<>> THEN Result(<<>>, <<acc, <<>>>>, "")
    ELSE IF Head(lines) = <<>> THEN Result(<<>>, <<acc, Tail(lines)>>, "")
    ELSE LET kv == SplitN(Head(lines), SP, 1)
         IN IF Len(kv) < 2 THEN Result(<<>>, PyNone, "ValueError")
            ELSE IF kv[1] = <<"tree">>
                 THEN CommitHeader(Tail(lines), <<PyStr(kv[2]), acc[2]>>)
            ELSE IF kv[1] = <<"parent">>
                 THEN CommitHeader(Tail(lines), <<acc[1], PyStr(kv[2])>>)
            ELSE Result(<<>>, PyNone, "AssertionError")

Unbound == [type |-> "unbound"]

\* get_commit that never binds parent
get_commit_noparent(f, oid) ==
    LET g == get_object(f, oid, PyStr(<<"commit">>))
        h == CommitHeader(SplitLines(g.ret.s), <<Unbound, PyNone>>)
    IN IF g.exc # "" THEN g
       ELSE IF h.exc # "" THEN Result(f, PyNone, h.exc)
       ELSE IF h.ret[1][1].type = "unbound" THEN Result(f, PyNone, "UnboundLocalError")
       ELSE Result(f, Commit(h.ret[1][1], PyNone, PyStr(Join(h.ret[2], NL))), "")

\* base.py:128-147; ret is a Commit
get_commit(f, oid) ==
    LET g == get_object(f, oid, PyStr(<<"commit">>))
        h == CommitHeader(SplitLines(g.ret.s), <<Unbound, PyNone>>)
    IN IF g.exc # "" THEN g
       ELSE IF h.exc # "" THEN Result(f, PyNone, h.exc)
       ELSE IF h.ret[1][1].type = "unbound" THEN Result(f, PyNone, "UnboundLocalError")
       ELSE Result(f, Commit(h.ret[1][1], h.ret[1][2], PyStr(Join(h.ret[2], NL))), "")

\* base.py:150-153
checkout(f, oid) ==
    Then(get_commit(f, oid), LAMBDA c :
    Then(read_tree(f, c.ret.tree), LAMBDA r :
    update_ref(r.fs, <<"HEAD">>, oid, TRUE)))

\* base.py:158-159
create_tag(f, name, oid) == update_ref(f, <<"refs", SLASH, "tags", SLASH>> \o name, oid, TRUE)

\* create_branch is called by cli.py:230 and is not in base.py; spec 4.4: it
\* "writes a direct reference under the branch namespace pointing at
\* startAddress"
create_branch(f, name, oid) ==
    update_ref(f, <<"refs", SLASH, "heads", SLASH>> \o name, RefValue(FALSE, oid), TRUE)

\* iter_commits_and_parents is called by cli.py:179 and cli.py:206 and is
\* not in base.py; spec 4.4, ancestors: "visiting each commit address at most
\* once via a seen-set, following each commit's single parent link until it
\* has none".  oids is the work list, visited the seen-set, out the
\* addresses yielded so far.
RECURSIVE IterCommits(_, _, _, _)
IterCommits(f, oids, visited, out) ==
    IF oids = <<>> THEN Result(f, out, "")
    ELSE IF ~Truthy(Head(oids)) \/ Head(oids) \in visited
         THEN IterCommits(f, Tail(oids), visited, out)
    ELSE LET c == get_commit(f, Head(oids))
         IN IF c.exc # "" THEN Result(f, PyNone, c.exc)
            ELSE IterCommits(f, <<c.ret.parent>> \o Tail(oids),
                             visited \cup {Head(oids)}, Append(out, Head(oids)))

\* ret is the sequence of the addresses yielded
iter_commits_and_parents(f, oids) == IterCommits(f, oids, {}, <<>>)

----------------------------------------------------------------------------
(* base.py: names                                                          *)

\* base.py:164-169, in the order of the list
refs_to_try(name) ==
    << name,
       <<"refs", SLASH>> \o name,
       <<"refs", SLASH, "tags", SLASH>> \o name,
       <<"refs", SLASH, "heads", SLASH>> \o name >>

\* the one-token strings of the model that are not 40 hexadecimal characters
Words == {"HEAD", "refs", "heads", "tags", "main", "feature", "v1", "notes", "nosuch", "."}

\* base.py:176-177: a string is 40 hexadecimal characters when it is one
\* token, a digest or an address, and none of the words
IsHex40(name) == Len(name) = 1 /\ name[1] \notin Words /\ name[1] \notin {NUL, NL, SP, COLON, SLASH}

\* base.py:171-173: the first candidate whose get_ref value is truthy ends
\* the loop; ret is Unbound when the loop runs out
RECURSIVE TryRefs(_, _)
TryRefs(f, refs) ==
    IF refs = <<>> THEN Result(f, Unbound, "")
    ELSE LET r == get_ref(f, Head(refs), TRUE)
         IN IF r.exc # "" THEN r
            ELSE IF Truthy(r.ret) THEN get_ref(f, Head(refs), TRUE)
            ELSE TryRefs(f, Tail(refs))

\* base.py:163-180; name is a str
get_oid(f, name) ==
    LET t == TryRefs(f, refs_to_try(name.s))
    IN IF t.exc # "" \/ t.ret.type # "unbound" THEN t
       ELSE IF IsHex40(name.s) THEN Result(f, name, "")
       ELSE Result(f, PyNone, "AssertionError")

----------------------------------------------------------------------------
(* The calls, their inputs, and the specifications                         *)

\* the state a call leaves: the file system, and what the caller observed;
\* new is the set of paths the call created
Call(op, arg, r) ==
    /\ fs' = r.fs
    /\ last' = [op |-> op, arg |-> arg, ret |-> r.ret, exc |-> r.exc,
                new |-> DOMAIN r.fs \ DOMAIN fs]
    /\ procs' = procs

\* the processes that run hash_object side by side
Writers == {"w1", "w2"}

\* a process that has not called hash_object
Idle == [pc |-> "idle", data |-> <<>>, type_ |-> <<>>, oid |-> PyNone]

\* git-clone init in an empty directory (cli.py:138-140)
Init ==
    /\ fs = init(<<>> :> DirNode).fs
    /\ last = [op |-> "init", arg |-> <<>>, ret |-> PyNone, exc |-> "", new |-> {}]
    /\ procs = [w \in Writers |-> Idle]

Kinds == {<<"blob">>, <<"tree">>, <<"commit">>}

\* the names of the files in .git-clone/objects, as oids
StoredOids(f) == {PyStr(<<p[3]>>) : p \in Children(f, <<GIT_DIR, "objects">>)}

\* the objects directory holds the file oid names
HasObject(f, oid) == IsFile(f, ObjectPath(oid))

(* The object store alone: payloads over a two-token alphabet with NUL.    *)

MaxPayloadLen == 2
MaxStoreObjects == 1

PayloadAlphabet == {NUL, "a"}

RECURSIVE SeqsUpTo(_, _)
SeqsUpTo(S, n) ==
    IF n = 0 THEN {<<>>}
    ELSE LET shorter == SeqsUpTo(S, n - 1)
         IN shorter \cup {Append(s, x) : s \in {t \in shorter : Len(t) = n - 1}, x \in S}

StorePayloads == SeqsUpTo(PayloadAlphabet, MaxPayloadLen)

\* an oid that names no object
NoSuchOid == PyStr(<<"0000">>)

HashObject ==
    \E data \in StorePayloads, type_ \in Kinds :
        LET r == hash_object(fs, data, type_)
        IN /\ \/ Cardinality(StoredOids(fs)) < MaxStoreObjects
              \/ HasObject(fs, r.ret)
           /\ Call("hash_object", <<data, type_>>, r)

GetObject ==
    \E oid \in StoredOids(fs) \cup {NoSuchOid}, expected \in {PyStr(k) : k \in Kinds} \cup {PyNone} :
        Call("get_object", <<oid, expected>>, get_object(fs, oid, expected))

NextStore == HashObject \/ GetObject

SpecStore == Init /\ [][NextStore]_vars


(* The reference store alone: three names, two addresses.                  *)

HEAD == <<"HEAD">>
Branch(name) == <<"refs", SLASH, "heads", SLASH, name>>
Tag(name) == <<"refs", SLASH, "tags", SLASH, name>>

RefNames == {HEAD, Branch("main"), Branch("feature")}

\* two addresses, as the 40-hex strings a caller may hold
Addresses == {<<"1f7a">>, <<"9c04">>}

Direct(a) == RefValue(FALSE, PyStr(a))
Symbolic(n) == RefValue(TRUE, PyStr(n))

\* what callers pass as value: a direct or symbolic RefValue or, as base.py
\* does, a bare str
RefInputs ==
    {Direct(a) : a \in Addresses} \cup {Symbolic(n) : n \in RefNames}
    \cup {PyStr(<<"1f7a">>)}

UpdateRef ==
    \E ref \in RefNames, value \in RefInputs, deref \in BOOLEAN :
        Call("update_ref", <<ref, value, deref>>, update_ref(fs, ref, value, deref))

GetRef ==
    \E ref \in RefNames, deref \in BOOLEAN :
        Call("get_ref", <<ref, deref>>, get_ref(fs, ref, deref))

NextRefs == UpdateRef \/ GetRef

SpecRefs == Init /\ [][NextRefs]_vars

(* Trees and commits over a working directory.                             *)

MaxObjects == 4

Contents == {<<"v1">>, <<"v2">>}
Messages == {<<"first">>}

\* the kind tag of a stored object
KindOf(f, oid) == Partition(f[ObjectPath(oid)].data, NUL)[1]

OidsOfKind(f, kind) == {oid \in StoredOids(f) : KindOf(f, oid) = kind}

\* a call that stores objects is made while the store holds at most
\* MaxObjects afterwards
Bounded(r) == Cardinality(StoredOids(r.fs)) <= MaxObjects

\* One-entry tree payloads a caller of hash_object can assemble from the
\* addresses it holds: a stored blob under the name of its own address, or a
\* stored tree under the name of the metadata root or of its objects
\* directory.
TreePayloads(f) ==
    {TreeText(<<(<<oid.s[1], oid, <<"blob">>>>)>>) : oid \in OidsOfKind(f, <<"blob">>)}
    \cup {TreeText(<<(<<name, oid, <<"tree">>>>)>>) :
            oid \in OidsOfKind(f, <<"tree">>), name \in {GIT_DIR, "objects"}}

HashBlob ==
    \E data \in {<<"v1">>} :
        /\ Bounded(hash_object(fs, data, <<"blob">>))
        /\ Call("hash_object", <<data, <<"blob">>>>, hash_object(fs, data, <<"blob">>))

HashTree ==
    \E data \in TreePayloads(fs) :
        /\ Bounded(hash_object(fs, data, <<"tree">>))
        /\ Call("hash_object", <<data, <<"tree">>>>, hash_object(fs, data, <<"tree">>))

WriteTree ==
    /\ Bounded(write_tree(fs, <<".">>))
    /\ Call("write_tree", <<>>, write_tree(fs, <<".">>))

ReadTree ==
    \E oid \in StoredOids(fs) :
        Call("read_tree", <<oid>>, read_tree(fs, oid))

\* the user writes the file notes in the working directory
Edit ==
    \E c \in Contents :
        Call("edit", <<c>>, Result(WriteData(OpenW(fs, <<"notes">>).fs, <<"notes">>, c), PyNone, ""))

DoCommit ==
    \E message \in Messages :
        /\ Bounded(commit(fs, message))
        /\ Call("commit", <<message>>, commit(fs, message))

Checkout ==
    \E name \in OidsOfKind(fs, <<"commit">>) \cup {PyStr(<<"feature">>)} :
        Call("checkout", <<name>>, checkout(fs, name))

\* a commit payload assembled by hand, with a header field that commit()
\* never writes
HashCommit ==
    \E data \in {<<"author", SP, "x", NL, NL, "first", NL>>} :
        /\ Bounded(hash_object(fs, data, <<"commit">>))
        /\ Call("hash_object", <<data, <<"commit">>>>, hash_object(fs, data, <<"commit">>))

CreateTag ==
    \E oid \in OidsOfKind(fs, <<"commit">>) :
        Call("create_tag", <<<<"v1">>, oid>>, create_tag(fs, <<"v1">>, oid))

CreateBranch ==
    \E oid \in OidsOfKind(fs, <<"commit">>) :
        Call("create_branch", <<<<"feature">>, oid>>, create_branch(fs, <<"feature">>, oid))

SetHead ==
    \E value \in {Direct(o.s) : o \in OidsOfKind(fs, <<"commit">>)} \cup {Symbolic(Branch("feature"))},
       deref \in BOOLEAN :
        Call("update_ref", <<HEAD, value, deref>>, update_ref(fs, HEAD, value, deref))

ReadHead ==
    \E deref \in BOOLEAN :
        Call("get_ref", <<HEAD, deref>>, get_ref(fs, HEAD, deref))

NextTree == HashBlob \/ HashTree \/ WriteTree \/ ReadTree

SpecTree == Init /\ [][NextTree]_vars

Next ==
    \/ Edit \/ DoCommit \/ Checkout \/ CreateTag \/ CreateBranch \/ SetHead \/ ReadHead
    \/ HashCommit

Spec == Init /\ [][Next]_vars

(* Snapshots of a working directory whose entries the file system yields  *)
(* in any order.                                                           *)

MaxSnapObjects == 3

\* the files the user writes, and what into each
WorkPaths == {<<"notes">>, <<"a\nb">>, <<"src", "main">>, <<"src", "notes">>}
ContentsOf(p) == {<<"v1">>}

\* the sequence s backwards
Reverse(s) == [i \in 1..Len(s) |-> s[Len(s) + 1 - i]]

\* orders os.scandir may yield the names in: any two names come both ways
ScanOrders ==
    {<<"a\nb", "notes", "src", "main">>, Reverse(<<"a\nb", "notes", "src", "main">>),
     <<"notes", "a\nb", "src", "main">>, <<"src", "a\nb", "notes", "main">>}

\* the user writes a file, making its directory first
WriteFile ==
    \E p \in WorkPaths : \E c \in ContentsOf(p) :
        /\ MakeDirs(fs, Parent(p)).exc = ""
        /\ Call("edit", <<p, c>>,
                Result(WriteData(OpenW(MakeDirs(fs, Parent(p)).fs, p).fs, p, c), PyNone, ""))

SnapWriteTree ==
    \E ord \in ScanOrders :
        LET r == write_tree_in(fs, <<".">>, ord)
        IN /\ Cardinality(StoredOids(r.fs)) <= MaxSnapObjects
           /\ Call("write_tree", <<>>, r)

SnapReadTree ==
    \E oid \in OidsOfKind(fs, <<"tree">>) :
        /\ TRUE
        /\ Call("read_tree", <<oid>>, read_tree(fs, oid))

NextSnap == WriteFile \/ SnapWriteTree \/ SnapReadTree

SpecSnap == Init /\ [][NextSnap]_vars

(* The commit graph: commit objects with well-formed parent lines.         *)

MaxGraphCommits == 3

\* the one or two start addresses, in the order the set yields them
StartSeqs(S) == {<<x>> : x \in S} \cup {<<x, y>> : x, y \in S}

\* a commit payload in the format of base.py:105-116 is stored: the parent
\* an address already stored or none, the tree an address
StoreCommit ==
    \E parent \in OidsOfKind(fs, <<"commit">>) \cup {PyNone}, message \in {<<"first">>, <<"second">>} :
        LET r == hash_object(fs, CommitText(PyStr(<<"1f7a">>), parent, message), <<"commit">>)
        IN /\ Cardinality(StoredOids(r.fs)) <= MaxGraphCommits
           /\ Call("hash_object", <<CommitText(PyStr(<<"1f7a">>), parent, message), <<"commit">>>>, r)

Traverse ==
    \E oids \in StartSeqs(OidsOfKind(fs, <<"commit">>)) :
        /\ TRUE
        /\ Call("iter_commits_and_parents", <<oids>>, iter_commits_and_parents(fs, oids))

NextGraph == StoreCommit \/ Traverse

SpecGraph == Init /\ [][NextGraph]_vars

(* Trees assembled by hand, with entries write_tree never writes.         *)

MaxCraftedObjects == 3

\* the lines a caller of hash_object may give one entry of a tree: a stored
\* blob under a plain name, under '.', '..' and a name with a separator,
\* and under a kind that is neither blob nor tree; a stored tree under a
\* plain name
EntryLines(f) ==
    UNION {{<<"blob", SP>> \o oid.s \o <<SP, "notes", NL>>,
            <<"blob", SP>> \o oid.s \o <<SP, ".", NL>>,
            <<"blob", SP>> \o oid.s \o <<SP, "..", NL>>,
            <<"blob", SP>> \o oid.s \o <<SP, "src", SLASH, "main", NL>>,
            <<"commit", SP>> \o oid.s \o <<SP, "notes", NL>>} :
                oid \in OidsOfKind(f, <<"blob">>)}
    \cup {<<"tree", SP>> \o oid.s \o <<SP, "src", NL>> : oid \in OidsOfKind(f, <<"tree">>)}

CraftBlob ==
    \E data \in {<<"v1">>} :
        LET r == hash_object(fs, data, <<"blob">>)
        IN /\ Cardinality(StoredOids(r.fs)) <= MaxCraftedObjects
           /\ Call("hash_object", <<data, <<"blob">>>>, r)

CraftTree ==
    \E data \in EntryLines(fs) :
        LET r == hash_object(fs, data, <<"tree">>)
        IN /\ Cardinality(StoredOids(r.fs)) <= MaxCraftedObjects
           /\ Call("hash_object", <<data, <<"tree">>>>, r)

\* the dict a call returns, as a Python value
PyDict(r) == IF r.exc # "" THEN r ELSE Result(r.fs, [type |-> "dict", items |-> r.ret], "")

GetTree ==
    \E oid \in OidsOfKind(fs, <<"tree">>) :
        /\ TRUE
        /\ Call("get_tree", <<oid>>, PyDict(get_tree(fs, oid, <<>>)))

CraftedReadTree ==
    \E oid \in OidsOfKind(fs, <<"tree">>) :
        /\ TRUE
        /\ Call("read_tree", <<oid>>, read_tree(fs, oid))

NextCrafted == CraftBlob \/ CraftTree \/ GetTree \/ CraftedReadTree

SpecCrafted == Init /\ [][NextCrafted]_vars

(* A working directory with a symbolic link in it.                         *)

\* os.scandir yields the link before or after the file next to it
LinkOrders == {<<"link", "notes">>, <<"notes", "link">>}

\* the user makes the symbolic link
MakeLink ==
    /\ ~Exists(fs, <<"link">>)
    /\ Call("symlink", <<>>,
            Result([p \in DOMAIN fs \cup {<<"link">>} |->
                        IF p = <<"link">> THEN LinkNode ELSE fs[p]], PyNone, ""))

LinkWriteFile ==
    \E p \in {<<"notes">>, <<"src", "main">>}, c \in Contents :
        /\ MakeDirs(fs, Parent(p)).exc = ""
        /\ Call("edit", <<p, c>>,
                Result(WriteData(OpenW(MakeDirs(fs, Parent(p)).fs, p).fs, p, c), PyNone, ""))

LinkWriteTree ==
    \E ord \in LinkOrders :
        LET r == write_tree_in(fs, <<".">>, ord)
        IN /\ Cardinality(StoredOids(r.fs)) <= MaxObjects
           /\ Call("write_tree", <<>>, r)

NextLink == MakeLink \/ LinkWriteFile \/ LinkWriteTree

SpecLink == Init /\ [][NextLink]_vars

(* Two processes store the same content while a third reads it.           *)

\* data.py:20-22: a process enters hash_object with the (data, type_) the
\* other one has, or any when the other has none, and computes the address
Enter(w) ==
    \E data \in {<<"v1">>, <<"v2">>}, type_ \in Kinds :
        /\ procs[w].pc = "idle"
        /\ \A v \in Writers : procs[v].pc # "idle" => (procs[v].data = data /\ procs[v].type_ = type_)
        /\ procs' = [procs EXCEPT ![w] = [pc |-> "hashed", data |-> data, type_ |-> type_,
                                         oid |-> PyStr(<<Sha1(type_ \o <<NUL>> \o data)>>)]]
        /\ UNCHANGED <<fs, last>>

\* data.py:24: open(..., "wb") creates the file or truncates it
Open(w) ==
    /\ procs[w].pc = "hashed"
    /\ OpenW(fs, ObjectPath(procs[w].oid)).exc = ""
    /\ fs' = OpenW(fs, ObjectPath(procs[w].oid)).fs
    /\ procs' = [procs EXCEPT ![w].pc = "opened"]
    /\ UNCHANGED last

\* data.py:25-26: the bytes are written at offset 0 of this process's file
\* object, the file is closed and the address returned
WriteReturn(w) ==
    /\ procs[w].pc = "opened"
    /\ fs' = WriteData(fs, ObjectPath(procs[w].oid), procs[w].type_ \o <<NUL>> \o procs[w].data)
    /\ procs' = [procs EXCEPT ![w].pc = "returned"]
    /\ last' = [op |-> "hash_object", arg |-> <<procs[w].data, procs[w].type_>>,
                ret |-> procs[w].oid, exc |-> "", new |-> {}]

\* a third process reads the address a writer has returned
ReadReturned ==
    \E w \in Writers :
        /\ procs[w].pc = "returned"
        /\ Call("get_object", <<procs[w].oid, PyStr(procs[w].type_)>>,
                get_object(fs, procs[w].oid, PyStr(procs[w].type_)))

NextConc == (\E w \in Writers : Enter(w) \/ Open(w) \/ WriteReturn(w)) \/ ReadReturned

SpecConc == Init /\ [][NextConc]_vars

(* Name resolution over the cells one token can stand for.                 *)

\* the reference cells get_oid tries for the token v1
NameCells == {<<"v1">>, <<"refs", SLASH, "v1">>, Tag("v1"), Branch("v1")}

\* the tokens a user passes: a name, a name that has no cell, and a string
\* of 40 hexadecimal characters
Tokens == {PyStr(<<"v1">>), PyStr(<<"nosuch">>), PyStr(<<"1f7a">>)}

SetName ==
    \E ref \in NameCells, a \in Addresses :
        /\ TRUE
        /\ Call("update_ref", <<ref, Direct(a), TRUE>>, update_ref(fs, ref, Direct(a), TRUE))

GetOid ==
    \E name \in Tokens :
        /\ TRUE
        /\ Call("get_oid", <<name>>, get_oid(fs, name))

NextNames == SetName \/ GetOid

SpecNames == Init /\ [][NextNames]_vars

(* Two processes run commit against one store root, step by step.          *)

MaxRaceObjects == 4

\* the message each process commits with
MessageOf(w) == IF w = "w1" THEN <<"first">> ELSE <<"second">>

\* base.py:105: the process takes the snapshot; oid holds write_tree's return
CommitTree(w) ==
    LET t == write_tree(fs, <<".">>)
    IN /\ procs[w].pc = "idle"
       /\ t.exc = ""
       /\ Cardinality(StoredOids(fs)) < MaxRaceObjects
       /\ fs' = t.fs
       /\ procs' = [procs EXCEPT ![w] = [pc |-> "tree", data |-> <<>>, type_ |-> <<"commit">>,
                                         oid |-> t.ret]]
       /\ UNCHANGED last

\* base.py:111-116: the process reads HEAD and finishes the payload
CommitHead(w) ==
    LET H == get_ref(fs, HEAD, TRUE)
    IN /\ procs[w].pc = "tree"
       /\ H.exc = ""
       /\ procs' = [procs EXCEPT ![w].pc = "head",
                                 ![w].data = CommitText(procs[w].oid, H.ret, MessageOf(w))]
       /\ UNCHANGED <<fs, last>>

\* base.py:118: the process stores the commit object
CommitHash(w) ==
    LET h == hash_object(fs, procs[w].data, <<"commit">>)
    IN /\ procs[w].pc = "head"
       /\ h.exc = ""
       /\ fs' = h.fs
       /\ procs' = [procs EXCEPT ![w].pc = "hashed", ![w].oid = h.ret]
       /\ UNCHANGED last

\* base.py:121-123: the process updates HEAD and returns the oid, or the
\* update raises and commit ends with the exception
CommitUpdate(w) ==
    LET u == update_ref(fs, HEAD, procs[w].oid, TRUE)
    IN /\ procs[w].pc = "hashed"
       /\ fs' = u.fs
       /\ procs' = [procs EXCEPT ![w].pc = IF u.exc = "" THEN "done" ELSE "raised"]
       /\ last' = [op |-> "commit", arg |-> <<MessageOf(w)>>,
                   ret |-> IF u.exc = "" THEN procs[w].oid ELSE PyNone,
                   exc |-> u.exc, new |-> {}]

\* a process whose commit has ended runs commit again
Again(w) ==
    /\ procs[w].pc \in {"done", "raised"}
    /\ procs' = [procs EXCEPT ![w] = Idle]
    /\ UNCHANGED <<fs, last>>

\* HEAD is set through data.update_ref to the oid of a stored commit
RaceSetHead ==
    \E oid \in OidsOfKind(fs, <<"commit">>) :
        /\ TRUE
        /\ Call("update_ref", <<HEAD, Direct(oid.s), TRUE>>, update_ref(fs, HEAD, Direct(oid.s), TRUE))

NextRace ==
    \/ \E w \in Writers : CommitTree(w) \/ CommitHead(w) \/ CommitHash(w) \/ CommitUpdate(w) \/ Again(w)
    \/ RaceSetHead

SpecRace == Init /\ [][NextRace]_vars

(* The commands, with the oid arguments the command line resolves.         *)

\* cli.py:94-97, 189-190: git-clone tag v1 <token>; the parser passes the
\* token through get_oid and tag hands the result to create_tag
CliTag ==
    \E token \in {PyStr(HEAD), PyStr(<<"v1">>), PyStr(<<"nosuch">>)} \cup OidsOfKind(fs, <<"commit">>) :
        /\ TRUE
        /\ Call("tag", <<<<"v1">>, token>>,
                Then(get_oid(fs, token), LAMBDA o : create_tag(o.fs, <<"v1">>, o.ret)))

NextCli == Edit \/ DoCommit \/ Checkout \/ CliTag \/ SetHead

SpecCli == Init /\ [][NextCli]_vars

----------------------------------------------------------------------------
(* Claims about the object store, checked under SpecStore                  *)

\* C1: round trip.  A get_object(oid, k) that directly follows the
\* hash_object(p, k) that returned oid returns exactly p, for every kind k
\* and every payload p, the empty one and those holding NUL included.
C1_RoundTrip ==
    [][(/\ last.op = "hash_object" /\ last.exc = ""
        /\ last'.op = "get_object"
        /\ last'.arg = <<last.ret, PyStr(last.arg[2])>>)
       => (last'.exc = "" /\ last'.ret = PyStr(last.arg[1]))]_vars

\* C1 witness: a get_object has returned a payload that holds a NUL
C1_Witness ==
    /\ last.op = "get_object" /\ last.exc = ""
    /\ last.arg[2].type = "str"
    /\ \E i \in 1..Len(last.ret.s) : last.ret.s[i] = NUL

\* C2: determinism and idempotence of put.  hash_object(p, k) called again
\* returns the address it returned before, and a hash_object whose address
\* is already stored leaves the set of stored objects and the bytes of each
\* as they were.
C2_PutIdempotent ==
    [][(last'.op = "hash_object" /\ last'.exc = "")
       => /\ (last.op = "hash_object" /\ last.exc = "" /\ last'.arg = last.arg)
                => last'.ret = last.ret
          /\ HasObject(fs, last'.ret) => fs' = fs]_vars

\* C2 witness: a hash_object has returned that created no file, its
\* address being stored already
C2_Witness ==
    /\ last.op = "hash_object" /\ last.exc = "" /\ last.new = {}
    /\ HasObject(fs, last.ret)

----------------------------------------------------------------------------
(* Claims about the reference store, checked under SpecRefs                *)

\* where each reference cell lives
RefPath == [n \in RefNames \cup {Tag("v1")} |-> GitPath(n)]

\* the content of reference cell n: <<text>>, or <<>> when there is no file
CellOf(f, n) == IF IsFile(f, RefPath[n]) THEN <<f[RefPath[n]].data>> ELSE <<>>

\* cell n holds address a / cell n holds "ref: m"
IsDirectCell(f, n, a) == CellOf(f, n) = <<a>>
IsSymbolicCell(f, n, m) == CellOf(f, n) = <<(<<"ref", COLON, SP>> \o m)>>

\* the last name of the symbolic chain that starts at n, <<>> when the chain
\* has not ended after k indirections
RECURSIVE ChainEnd(_, _, _)
ChainEnd(f, n, k) ==
    LET c == CellOf(f, n)
    IN IF c # <<>> /\ Len(c[1]) > 3 /\ SubSeq(c[1], 1, 3) = <<"ref", COLON, SP>>
       THEN IF k = 0 THEN <<>> ELSE ChainEnd(f, SubSeq(c[1], 4, Len(c[1])), k - 1)
       ELSE n

\* a chain over RefNames that is longer than RefNames is a cycle
Acyclic(f, n) == ChainEnd(f, n, Cardinality(RefNames)) # <<>>

\* C4: reference chains.  get_ref of a direct reference yields its address;
\* of a chain A -> B -> address it yields the non-symbolic address with
\* deref=True, and the symbolic value B with deref=False whatever B holds.
C4_ReferenceChains ==
    last.op = "get_ref" =>
        LET A == last.arg[1]
            deref == last.arg[2]
        IN \A a \in Addresses, B \in RefNames :
            /\ IsDirectCell(fs, A, a) => (last.exc = "" /\ last.ret = Direct(a))
            /\ (IsSymbolicCell(fs, A, B) /\ IsDirectCell(fs, B, a) /\ deref)
                    => (last.exc = "" /\ last.ret = Direct(a))
            /\ (IsSymbolicCell(fs, A, B) /\ ~deref)
                    => (last.exc = "" /\ last.ret = Symbolic(B))

\* C4 witness: get_ref with deref=True has resolved a two-level chain
C4_Witness ==
    /\ last.op = "get_ref" /\ last.arg[2]
    /\ \E a \in Addresses, B \in RefNames \ {last.arg[1]} :
            IsSymbolicCell(fs, last.arg[1], B) /\ IsDirectCell(fs, B, a)

\* the text update_ref writes for value
Serialized(value) ==
    IF value.symbolic THEN <<"ref", COLON, SP>> \o value.value.s ELSE value.value.s

\* C5: update_ref writes one cell and leaves the others unchanged.  With
\* deref=True the cell is the last name of the symbolic chain from the given
\* name, with deref=False the given name itself; every other cell keeps its
\* content, the written cell holds the value, and a RefValue written through
\* a chain that ends is written without error.
C5_UpdateRefFrame ==
    [][last'.op = "update_ref" =>
        LET ref == last'.arg[1]
            value == last'.arg[2]
            deref == last'.arg[3]
            target == IF deref THEN ChainEnd(fs, ref, Cardinality(RefNames)) ELSE ref
        IN /\ \A n \in RefNames \ {target} : CellOf(fs', n) = CellOf(fs, n)
           /\ last'.exc = "" => (target # <<>> /\ CellOf(fs', target) = <<Serialized(value)>>)
           /\ (value.type = "RefValue" /\ target # <<>>) => last'.exc = ""]_vars

\* C5 witness: update_ref("HEAD", address) has returned with HEAD still
\* symbolic to refs/heads/main and the address in refs/heads/main
C5_Witness ==
    /\ last.op = "update_ref" /\ last.exc = ""
    /\ last.arg[1] = HEAD /\ last.arg[3] /\ ~last.arg[2].symbolic
    /\ IsSymbolicCell(fs, HEAD, Branch("main"))
    /\ IsDirectCell(fs, Branch("main"), last.arg[2].value.s)

\* C6: resolution terminates.  In every state update_ref calls can reach,
\* no reference starts a symbolic cycle, and resolving it with deref=True
\* ends without exhausting the recursion depth.
C6_ResolutionTerminates ==
    \A n \in RefNames :
        /\ Acyclic(fs, n)
        /\ get_ref(fs, n, TRUE).exc # "RecursionError"

----------------------------------------------------------------------------
(* Claims about trees and the store, checked under SpecTree                *)

\* the paths of the object files that hold what hash_object wrote there:
\* the bytes whose digest is the file's name
ObjectFiles(f) ==
    {p \in Children(f, <<GIT_DIR, "objects">>) : ~f[p].dir /\ p[3] = Sha1(f[p].data)}

\* C3: the object store is append-only.  No call removes or alters an object
\* file: every object stored before a call is there after it with the same
\* bytes (kind tag and payload); and read_tree, which empties the working
\* directory, removes and alters nothing under the metadata root.
C3_AppendOnly ==
    [][/\ \A p \in ObjectFiles(fs) : p \in DOMAIN fs' /\ fs'[p] = fs[p]
       /\ last'.op = "read_tree" =>
            \A p \in DOMAIN fs : IsPrefix(<<GIT_DIR>>, p) => (p \in DOMAIN fs' /\ fs'[p] = fs[p])]_vars

----------------------------------------------------------------------------
(* Claims about commits and checkout, checked under Spec                   *)

\* the header lines of a commit payload: those before the first empty line
RECURSIVE HeaderLines(_)
HeaderLines(lines) ==
    IF lines = <<>> \/ Head(lines) = <<>> THEN <<>>
    ELSE <<Head(lines)>> \o HeaderLines(Tail(lines))

\* the payload has a header line that begins with key
HasLine(payload, key) ==
    \E i \in 1..Len(HeaderLines(SplitLines(payload))) :
        HeaderLines(SplitLines(payload))[i][1] = key

\* the payloads of the commit objects among the paths in new
NewCommits(f, new) ==
    {Partition(f[p].data, NUL)[3] :
        p \in {q \in new \cap ObjectFiles(f) : Partition(f[q].data, NUL)[1] = <<"commit">>}}

\* the regular files of the working directory, the metadata root left out
WorkFiles(f) == {p \in DOMAIN f : IsFile(f, p) /\ ~is_ignored(RelPath(p))}

\* the working directory holds exactly the files of the tree at tree_oid,
\* each with the bytes of its blob
HoldsTree(f, tree_oid) ==
    LET t == get_tree(f, tree_oid, <<".", SLASH>>)
    IN /\ t.exc = ""
       /\ WorkFiles(f) = {Flat(PathOf(t.ret[i][1])) : i \in 1..Len(t.ret)}
       /\ \A i \in 1..Len(t.ret) :
            PyStr(f[Flat(PathOf(t.ret[i][1]))].data)
                = get_object(f, t.ret[i][2], PyStr(<<"blob">>)).ret

Commits(f) == OidsOfKind(f, <<"commit">>)

\* C7: the first commit, made when no HEAD reference exists, produces a
\* commit payload that has a tree line and no parent line.
C7_FirstCommitNoParent ==
    [][(last'.op = "commit" /\ ~Exists(fs, RefPath[HEAD]))
       => \A payload \in NewCommits(fs', last'.new) :
            HasLine(payload, "tree") /\ ~HasLine(payload, "parent")]_vars

\* C8: commit run when HEAD resolves to address P returns the address of a
\* stored commit whose parent field is exactly P, and HEAD then resolves to
\* that new address.
C8_CommitAdvancesHead ==
    [][\A P \in Commits(fs) :
        (last'.op = "commit" /\ get_ref(fs, HEAD, TRUE).ret = Direct(P.s))
        => /\ last'.exc = ""
           /\ get_commit(fs', last'.ret).ret.parent = P
           /\ get_ref(fs', HEAD, TRUE).ret = Direct(last'.ret.s)]_vars

\* C9: with branch feature at commit C1, checkout('feature') leaves C1's
\* tree in the working directory and HEAD symbolic to refs/heads/feature;
\* a commit made while HEAD is symbolic to the branch writes the new address
\* into refs/heads/feature and leaves HEAD symbolic.
C9_CheckoutBranch ==
    [][\A C1 \in Commits(fs) :
        /\ (/\ last'.op = "checkout" /\ last'.arg = <<PyStr(<<"feature">>)>>
            /\ IsDirectCell(fs, Branch("feature"), C1.s))
           => /\ last'.exc = ""
              /\ IsSymbolicCell(fs', HEAD, Branch("feature"))
              /\ HoldsTree(fs', get_commit(fs, C1).ret.tree)
        /\ (/\ last'.op = "commit"
            /\ IsSymbolicCell(fs, HEAD, Branch("feature"))
            /\ IsDirectCell(fs, Branch("feature"), C1.s))
           => /\ last'.exc = ""
              /\ IsSymbolicCell(fs', HEAD, Branch("feature"))
              /\ IsDirectCell(fs', Branch("feature"), last'.ret.s)]_vars

\* C10: checkout of the 40-hex address of a stored commit leaves that
\* commit's tree in the working directory and the address in HEAD, direct,
\* and changes neither the branch nor the tag.
C10_CheckoutDetached ==
    [][(last'.op = "checkout" /\ last'.arg[1] \in Commits(fs))
       => /\ last'.exc = ""
          /\ IsDirectCell(fs', HEAD, last'.arg[1].s)
          /\ HoldsTree(fs', get_commit(fs, last'.arg[1]).ret.tree)
          /\ CellOf(fs', Branch("feature")) = CellOf(fs, Branch("feature"))
          /\ CellOf(fs', Tag("v1")) = CellOf(fs, Tag("v1"))]_vars

----------------------------------------------------------------------------
(* Claims about name resolution, checked under SpecNames                   *)

\* the candidates in the order the lookup rules are stated: literal path,
\* under refs/, branch, tag
LookupOrder(name) ==
    << name,
       <<"refs", SLASH>> \o name,
       <<"refs", SLASH, "heads", SLASH>> \o name,
       <<"refs", SLASH, "tags", SLASH>> \o name >>

\* the address the reference ref resolves to, None when it has no cell
Resolved(f, ref) == get_ref(f, ref, TRUE).ret.value

\* the first candidate of cands that resolves, 0 when none does
FirstResolving(f, cands) ==
    IF \A i \in 1..Len(cands) : Resolved(f, cands[i]) = PyNone THEN 0
    ELSE CHOOSE i \in 1..Len(cands) :
            /\ Resolved(f, cands[i]) # PyNone
            /\ \A j \in 1..(i - 1) : Resolved(f, cands[j]) = PyNone

\* C11: get_oid(token) returns the address of the first candidate that
\* resolves, tried as literal path, under refs/, as branch, as tag; the
\* value returned is an object address.
C11_Precedence ==
    [][(last'.op = "get_oid" /\ FirstResolving(fs, LookupOrder(last'.arg[1].s)) # 0)
       => /\ last'.exc = ""
          /\ last'.ret = Resolved(fs, LookupOrder(last'.arg[1].s)
                                        [FirstResolving(fs, LookupOrder(last'.arg[1].s))])]_vars

\* C12: when the token resolves to no reference, get_oid returns the token
\* itself if it is 40 hexadecimal characters and fails otherwise; it never
\* returns an empty value.
C12_Fallback ==
    [][(last'.op = "get_oid" /\ FirstResolving(fs, LookupOrder(last'.arg[1].s)) = 0)
       => IF IsHex40(last'.arg[1].s)
          THEN last'.exc = "" /\ last'.ret = last'.arg[1]
          ELSE last'.exc = "AssertionError"]_vars

----------------------------------------------------------------------------
(* Claims about snapshots, checked under SpecSnap                          *)

\* the regular files of the working directory with their bytes
Work(f) == [p \in WorkFiles(f) |-> f[p].data]

\* C13: snapshot fidelity.  A read_tree of the address the preceding
\* write_tree returned leaves the working directory with exactly the file
\* paths and bytes it had; and whatever was materialized before, a
\* read_tree leaves exactly the files of its tree and no other.
C13_SnapshotFidelity ==
    [][/\ (/\ last.op = "write_tree" /\ last.exc = ""
           /\ last'.op = "read_tree" /\ last'.arg = <<last.ret>>)
          => (last'.exc = "" /\ Work(fs') = Work(fs))
       /\ (last'.op = "read_tree" /\ last'.exc = "")
          => HoldsTree(fs', last'.arg[1])]_vars

\* the tree addresses write_tree returns over the orders the file system
\* may enumerate the entries in
TreeOids(f) == {write_tree_in(f, <<".">>, ord).ret : ord \in ScanOrders}

\* C14: tree order-independence.  write_tree returns one address whatever
\* order the entries are enumerated in, at every nesting level, and a
\* write_tree of the directory as the last write_tree left it returns the
\* address that one returned.
C14_OrderIndependence ==
    /\ Cardinality(TreeOids(fs)) = 1
    /\ (last.op = "write_tree" /\ last.exc = "") => TreeOids(fs) = {last.ret}

\* C14 witness: write_tree has run twice in a row on a directory that holds
\* two entries at the root and two in a subdirectory
C14_Witness ==
    /\ last.op = "write_tree" /\ last.exc = ""
    /\ IsFile(fs, <<"notes">>)
    /\ IsFile(fs, <<"src", "main">>) /\ IsFile(fs, <<"src", "notes">>)
    /\ HasObject(fs, last.ret)

----------------------------------------------------------------------------
(* Kind checking on read, checked under SpecStore                          *)

\* C15: get_object(address, expected) of a stored object fails with the
\* assertion's type-mismatch error when expected is given and differs from
\* the stored kind, returns the payload when it matches, and returns the
\* payload whatever the kind when expected is None.
C15_KindCheck ==
    [][/\ (last'.op = "get_object" /\ HasObject(fs, last'.arg[1]))
          => IF last'.arg[2] = PyNone \/ last'.arg[2] = PyStr(KindOf(fs, last'.arg[1]))
             THEN /\ last'.exc = ""
                  /\ <<NUL>> \o last'.ret.s
                        = SubSeq(fs[ObjectPath(last'.arg[1])].data,
                                 Len(KindOf(fs, last'.arg[1])) + 1,
                                 Len(fs[ObjectPath(last'.arg[1])].data))
             ELSE last'.exc = "AssertionError" /\ last'.ret = PyNone
       /\ (/\ last.op = "hash_object" /\ last.exc = ""
           /\ last'.op = "get_object" /\ last'.arg[1] = last.ret)
          => IF last'.arg[2] \in {PyNone, PyStr(last.arg[2])}
             THEN last'.exc = "" /\ last'.ret = PyStr(last.arg[1])
             ELSE last'.exc = "AssertionError"]_vars

\* C15 witness: a get_object that names a kind other than the stored one
\* has failed
C15_Witness ==
    /\ last.op = "get_object" /\ last.exc = "AssertionError"
    /\ HasObject(fs, last.arg[1])
    /\ last.arg[2] # PyStr(KindOf(fs, last.arg[1]))

----------------------------------------------------------------------------
(* Commit parsing, checked under Spec                                      *)

\* the commit objects among the paths in new, as addresses
NewCommitOids(f, new) ==
    {PyStr(<<p[3]>>) :
        p \in {q \in new \cap ObjectFiles(f) : Partition(f[q].data, NUL)[1] = <<"commit">>}}

\* a header line of the payload begins with a key other than tree or parent
HasOtherField(payload) ==
    \E i \in 1..Len(HeaderLines(SplitLines(payload))) :
        HeaderLines(SplitLines(payload))[i][1] \notin {"tree", "parent"}

\* C16: for the commit object a commit() stores, get_commit returns the tree
\* address of the snapshot, the parent address HEAD resolved to (None when
\* it resolved to nothing) and the message passed; and get_commit fails on
\* every stored commit payload that has a header field other than tree or
\* parent.
C16_CommitParsing ==
    [][/\ last'.op = "commit"
          => \A oid \in NewCommitOids(fs', last'.new) :
                /\ get_commit(fs', oid).exc = ""
                /\ get_commit(fs', oid).ret.tree = write_tree(fs, <<".">>).ret
                /\ get_commit(fs', oid).ret.message = PyStr(last'.arg[1])
                /\ get_commit(fs', oid).ret.parent = get_ref(fs, HEAD, TRUE).ret.value
       /\ \A oid \in Commits(fs') :
            HasOtherField(get_object(fs', oid, PyNone).ret.s) => get_commit(fs', oid).exc # ""]_vars

----------------------------------------------------------------------------
(* Ancestry traversal, checked under SpecGraph                             *)

\* the parent a commit payload names, read off its parent line; None when
\* the header has none
ParentIn(f, oid) ==
    LET hs == HeaderLines(SplitLines(Partition(f[ObjectPath(oid)].data, NUL)[3]))
    IN IF \E i \in 1..Len(hs) : hs[i][1] = "parent"
       THEN PyStr(SubSeq(hs[CHOOSE i \in 1..Len(hs) : hs[i][1] = "parent"], 3,
                         Len(hs[CHOOSE i \in 1..Len(hs) : hs[i][1] = "parent"])))
       ELSE PyNone

\* the commits reachable from S over at most n parent links
RECURSIVE ReachableIn(_, _, _)
ReachableIn(f, S, n) ==
    IF n = 0 THEN S
    ELSE ReachableIn(f, S \cup ({ParentIn(f, x) : x \in S} \ {PyNone}), n - 1)

Reachable(f, S) == ReachableIn(f, S, Cardinality(StoredOids(f)))

----------------------------------------------------------------------------
(* Malformed trees, checked under SpecCrafted                              *)

\* the entry line names a kind other than blob and tree, or the name '.',
\* '..' or one with a separator in it
BadLine(line) ==
    LET parts == SplitN(line, SP, 2)
    IN \/ parts[1] \notin {<<"blob">>, <<"tree">>}
       \/ parts[3] \in {<<".">>, <<"..">>}
       \/ \E i \in 1..Len(parts[3]) : parts[3][i] = SLASH

\* the tree at oid holds such an entry within n levels
RECURSIVE BadWithin(_, _, _)
BadWithin(f, oid, n) ==
    LET lines == SplitLines(Partition(f[ObjectPath(oid)].data, NUL)[3])
    IN /\ n > 0
       /\ HasObject(f, oid)
       /\ \E i \in 1..Len(lines) :
            \/ BadLine(lines[i])
            \/ /\ SplitN(lines[i], SP, 2)[1] = <<"tree">>
               /\ BadWithin(f, PyStr(SplitN(lines[i], SP, 2)[2]), n - 1)

\* the path has no component that leaves or names the directory it is in
Beneath(p) == \A i \in 1..Len(p) : p[i] \notin {"..", ".", ""}

\* C18: get_tree, alone or within read_tree, fails and returns no mapping
\* whenever an entry of the tree, at any depth, has a kind other than blob
\* or tree or a name '.', '..' or with '/' in it; and every path a
\* read_tree creates lies beneath the working directory.
C18_MalformedTree ==
    [][/\ (/\ last'.op \in {"get_tree", "read_tree"}
           /\ BadWithin(fs, last'.arg[1], MaxCraftedObjects + 1))
          => (last'.exc # "" /\ last'.ret = PyNone /\ last'.new = {})
       /\ last'.op = "read_tree" => \A p \in last'.new : Beneath(p)]_vars

\* C18 witness: get_tree has failed on a tree whose own entry is sound and
\* names a tree that holds a malformed entry
C18_Witness ==
    /\ last.op = "get_tree" /\ last.exc = "AssertionError"
    /\ ~BadWithin(fs, last.arg[1], 1)
    /\ BadWithin(fs, last.arg[1], 2)

----------------------------------------------------------------------------
(* Entries that are neither file nor directory, checked under SpecLink     *)

\* the names the entry lines of the tree at oid record
NamesIn(f, oid) ==
    LET lines == SplitLines(Partition(f[ObjectPath(oid)].data, NUL)[3])
    IN {SplitN(lines[i], SP, 2)[3] : i \in 1..Len(lines)}

\* C19: a write_tree that returns has stored a tree with no entry for a
\* child that is neither a regular file nor a directory: such a child is
\* skipped or makes write_tree fail.
C19_NoLinkEntry ==
    [][(last'.op = "write_tree" /\ last'.exc = "")
       => \A p \in DOMAIN fs :
            (Len(p) = 1 /\ IsLink(fs, p)) => Chars(p[1]) \notin NamesIn(fs', last'.ret)]_vars

----------------------------------------------------------------------------
(* Concurrent writers of one content, checked under SpecConc               *)

\* C20: in every interleaving of two processes that run hash_object on the
\* same (payload, kind), both return one address, the object file holds
\* the tagged payload once both have returned, and a get_object of the
\* address made after a writer has returned returns the whole payload.
C20_ConcurrentWriters ==
    [][/\ (\A v \in Writers : procs'[v].pc = "returned")
          => \A v, w \in Writers :
                /\ procs'[v].oid = procs'[w].oid
                /\ fs'[ObjectPath(procs'[w].oid)].data
                        = procs'[w].type_ \o <<NUL>> \o procs'[w].data
       /\ \A w \in Writers :
            (/\ last'.op = "get_object" /\ procs[w].pc = "returned"
             /\ last'.arg[1] = procs[w].oid)
            => (last'.exc = "" /\ last'.ret = PyStr(procs[w].data))]_vars

----------------------------------------------------------------------------
(* Concurrent commits against one store root, checked under SpecRace       *)

\* the address HEAD resolves to, None when it resolves to nothing
HeadValue(f) == get_ref(f, HEAD, TRUE).ret.value

\* both processes have run commit to its end on payloads with one header
\* (same tree, same HEAD read as parent) and distinct messages
RacedOnOneHead ==
    /\ \A w \in Writers : procs[w].pc \in {"done", "raised"}
    /\ \A v, w \in Writers :
         HeaderLines(SplitLines(procs[v].data)) = HeaderLines(SplitLines(procs[w].data))

\* HEAD resolves to nothing or to the address of a stored commit object
HeadStored ==
    HeadValue(fs) # PyNone
        => (HasObject(fs, HeadValue(fs)) /\ KindOf(fs, HeadValue(fs)) = <<"commit">>)

\* no commit call returns an address
CommitNeverReturns == \A w \in Writers : procs[w].pc # "done"

\* C21: when two processes have both run commit to its end after reading
\* the same HEAD value as parent, both have completed and HEAD resolves to
\* one of the two new commits (the other one is then reachable from no
\* reference); and in no interleaving does HEAD resolve to an address whose
\* commit object is not stored.
C21_LostUpdate ==
    /\ RacedOnOneHead
         => /\ \A w \in Writers : procs[w].pc = "done"
            /\ \E w \in Writers :
                 /\ HeadValue(fs) = procs[w].oid
                 /\ \A v \in Writers \ {w} : HeadValue(fs) # procs[v].oid
    /\ HeadStored

----------------------------------------------------------------------------
(* Integrity of references and parent links, checked under SpecCli         *)

\* the cell of reference n holds an address, not "ref: <name>"
HoldsAddress(f, n) ==
    /\ CellOf(f, n) # <<>>
    /\ ~(Len(CellOf(f, n)[1]) >= 2 /\ SubSeq(CellOf(f, n)[1], 1, 2) = <<"ref", COLON>>)

\* every direct reference holds the address of a stored commit
RefsHoldCommits ==
    \A n \in DOMAIN RefPath :
        HoldsAddress(fs, n) => PyStr(CellOf(fs, n)[1]) \in Commits(fs)

\* every stored commit parses, and its parent field, when present, is the
\* address of another stored commit
ParentsAreCommits ==
    \A c \in Commits(fs) :
        /\ get_commit(fs, c).exc = ""
        /\ get_commit(fs, c).ret.parent # PyNone
             => get_commit(fs, c).ret.parent \in Commits(fs) \ {c}

\* C22: after any sequence of commit, checkout, tag and reference updates
\* whose addresses come from the command line's name resolution, every
\* direct reference (HEAD, branches, tags) holds the address of a stored
\* commit, and the parent field of every stored commit, when present, is
\* the address of another stored commit.
C22_HistoryIntegrity == RefsHoldCommits /\ ParentsAreCommits

====
